---- MODULE Spec2Model ----
(***************************************************************************)
(* Model of src/src/App.tsx: the React component App, its batch handler    *)
(* handleConvert (read cell -> resolve URLs -> download -> transform ->    *)
(* write, with per-attachment and per-record try/catch), the form inputs   *)
(* and fetchData.  Every await of handleConvert is a value of pc; the      *)
(* host store (bitable SDK), fetch and the canvas are the environment and  *)
(* answer nondeterministically (return or throw) at each await.            *)
(*                                                                         *)
(* Spec leaves out what handleConvert and fetchData write and never read:  *)
(* the log buffer (logs, addLog), tableName and recordCount, and the crop  *)
(* arithmetic inside processImageWithPixel, whose only outcomes seen by    *)
(* handleConvert are resolve and reject.  The log buffer and the crop are  *)
(* specified on their own: SpecLog is addLog and setLogs([]) on the        *)
(* buffer, SpecCrop is the onload handler of processImageWithPixel on a    *)
(* decoded image, with the IEEE 754 double arithmetic of JavaScript.       *)
(* SpecLive is Spec with the fairness that every pending await answers.    *)
(*                                                                         *)
(* What is thrown matters to the catch blocks, which read .message of the  *)
(* caught value: a host-store call may reject with any value, null and     *)
(* undefined included; fetch and response.blob() reject with a TypeError   *)
(* and processImageWithPixel and the response.ok check with new Error.     *)
(***************************************************************************)
EXTENDS Integers, Sequences, FiniteSets, TLC

\* ------------------------------------------------------------------ bounds
MaxRecords == 2          \* longest record id list the table returns
MaxAttachments == 2      \* longest attachment list a cell holds
MaxLogged == 52          \* addLog calls in a behaviour of SpecLog
MaxDim == 9              \* widths and heights up to this one, of an image or of the target, are all tried in SpecCrop

\* ------------------------------------------------------- program constants
LogCap == 50             \* App.tsx:124  .slice(0, 50)
DefaultSize == 800       \* App.tsx:86-87  useState<number>(800)

\* ------------------------------------------------------------- file names
\* A file name is a sequence of one-character strings.
ImageJpg == <<"i", "m", "a", "g", "e", ".", "j", "p", "g">>

UpperChars == <<"A", "B", "C", "D", "E", "F", "G", "H", "I", "J", "K", "L", "M",
                "N", "O", "P", "Q", "R", "S", "T", "U", "V", "W", "X", "Y", "Z">>
LowerChars == <<"a", "b", "c", "d", "e", "f", "g", "h", "i", "j", "k", "l", "m",
                "n", "o", "p", "q", "r", "s", "t", "u", "v", "w", "x", "y", "z">>

\* the /i flag of the regular expression: letters compare by their lower case
LowerChar(c) ==
  IF \E k \in 1..Len(UpperChars) : UpperChars[k] = c
  THEN LowerChars[CHOOSE k \in 1..Len(UpperChars) : UpperChars[k] = c]
  ELSE c

ToLower(s) == [k \in 1..Len(s) |-> LowerChar(s[k])]

\* the alternation (jpg|jpeg|png|webp|gif|bmp)
ImageExts == { <<"j", "p", "g">>, <<"j", "p", "e", "g">>, <<"p", "n", "g">>,
               <<"w", "e", "b", "p">>, <<"g", "i", "f">>, <<"b", "m", "p">> }

EndsWith(s, suffix) ==
  /\ Len(s) >= Len(suffix)
  /\ SubSeq(s, Len(s) - Len(suffix) + 1, Len(s)) = suffix

\* faulty variant of IsImage: the test without the dot before the extension
IsImageMissingDot(fileName) ==
  \E ext \in ImageExts : EndsWith(ToLower(fileName), ext)

\* /\.(jpg|jpeg|png|webp|gif|bmp)$/i.test(fileName)
IsImage(fileName) ==
  \E ext \in ImageExts : EndsWith(ToLower(fileName), <<".">> \o ext)

\* attachment.name || 'image.jpg' : an absent or empty name is falsy
FileNameOf(attachment) ==
  IF attachment.hasName /\ attachment.name # <<>> THEN attachment.name ELSE ImageJpg

\* fileName.lastIndexOf('.') as a 1-based position, 0 when there is no '.'
LastIndexOfDot(s) ==
  IF \E k \in 1..Len(s) : s[k] = "."
  THEN CHOOSE k \in 1..Len(s) : s[k] = "." /\ \A m \in (k+1)..Len(s) : s[m] # "."
  ELSE 0

\* faulty variant of BaseName: the name is cut at its first '.'
BaseNameToFirstDot(fileName) ==
  IF \E k \in 1..Len(fileName) : fileName[k] = "."
  THEN SubSeq(fileName, 1, (CHOOSE k \in 1..Len(fileName) :
                              fileName[k] = "." /\ \A m \in 1..(k - 1) : fileName[m] # ".") - 1)
  ELSE fileName

\* fileName.includes('.') ? fileName.substring(0, fileName.lastIndexOf('.')) : fileName
BaseName(fileName) ==
  IF LastIndexOfDot(fileName) > 0
  THEN SubSeq(fileName, 1, LastIndexOfDot(fileName) - 1)
  ELSE fileName

Digits == <<"0", "1", "2", "3", "4", "5", "6", "7", "8", "9">>

\* the decimal text of a number inside a template literal
RECURSIVE NatStr(_)
NatStr(n) == IF n < 10 THEN <<Digits[n + 1]>> ELSE NatStr(n \div 10) \o <<Digits[(n % 10) + 1]>>

NumStr(n) == IF n < 0 THEN <<"-">> \o NatStr(-n) ELSE NatStr(n)

\* `${baseName}_${targetWidth}x${targetHeight}.jpg`
NewFileName(fileName, w, h) ==
  BaseName(fileName) \o <<"_">> \o NumStr(w) \o <<"x">> \o NumStr(h) \o <<".", "j", "p", "g">>

\* the width and height of a canvas element when nothing valid was set
CanvasDefaultWidth == 300
CanvasDefaultHeight == 150

\* canvas.width = n, canvas.height = n: the attribute is an unsigned long
\* limited to non-negative numbers, and a value outside of it sets the default
CanvasSize(n, default) == IF n >= 0 THEN n ELSE default

\* new File([blob], newFileName, { type: 'image/jpeg' }) for the blob of a
\* canvas set to w x h; src is the position of the source attachment in the
\* cell, url the URL the blob was downloaded from, w and h of the file are the
\* pixel size of the canvas
MakeFile(fileName, w, h, srcIndex, url) ==
  [name |-> NewFileName(fileName, w, h), type |-> "image/jpeg",
   w |-> CanvasSize(w, CanvasDefaultWidth), h |-> CanvasSize(h, CanvasDefaultHeight),
   src |-> srcIndex, url |-> url]

\* ------------------------------------------------------------- environment
\* what getFieldMetaListByType(FieldType.Attachment) can return
FieldLists == { <<"fldA">> }

\* what the user can leave in a number input: Number(e.target.value)
InputNumbers == {-1, 0}

NamePool == { <<"a", ".", "b", ".", "j", "p", "g">>, <<"B", ".", "P", "N", "G">>,
              <<"d", "o", "c", ".", "p", "d", "f">>, <<"j", "p", "g">>, <<>> }

\* an attachment of a cell; hasName = FALSE is an attachment without a name
AttachmentPool ==
  { [hasName |-> TRUE, name |-> n] : n \in NamePool } \cup { [hasName |-> FALSE, name |-> <<>>] }

AttachmentLists ==
  UNION { [1..n -> AttachmentPool] : n \in 0..MaxAttachments }

\* what sourceField.getValue(recordId) can resolve to
Cells ==
  { [kind |-> "null", items |-> <<>>], [kind |-> "notList", items |-> <<>>] }
  \cup { [kind |-> "list", items |-> l] : l \in AttachmentLists }

\* the shape of a cell value, as the event of its read reports it
CellShape(cell) ==
  IF cell.kind # "list" THEN cell.kind
  ELSE IF Len(cell.items) = 0 THEN "empty" ELSE "list"

\* what a host-store call can reject with: an Error object, or null/undefined
SdkThrown == {"Error", "nullish"}

\* ------------------------------------------------------------------ state
VARIABLES
  selectedSourceFieldId, selectedTargetFieldId,  \* App.tsx:84-85
  targetWidth, targetHeight,                     \* App.tsx:86-87
  attachmentFields,                              \* App.tsx:81
  isConverting, statusMsg, progress,             \* App.tsx:75-77
  pc,               \* the await handleConvert is suspended at, "idle" when not running
  closure,          \* the selections and target size handleConvert was created with
  recordIds, i,     \* App.tsx:139, 155
  successCount, skipCount, failCount,            \* App.tsx:151-153
  attachmentList, urls, j, processedFiles,       \* App.tsx:161, 175, 177, 171
  attResult,        \* history: what became of each attachment of the current record
  ops,              \* history: calls made so far for the current record
  ended,            \* history: the calls of the record that ended in the last step
  completed,        \* history: records of this run that ended with an outcome
  ev,               \* history: the last event that changed the state, <<call, result>>
  logs,             \* App.tsx:78, carried by SpecLog only
  logged,           \* history of SpecLog: the number of addLog calls so far
  img, canvas       \* App.tsx:10, 15: the image and the canvas of SpecCrop

uiVars == <<selectedSourceFieldId, selectedTargetFieldId, targetWidth, targetHeight,
            attachmentFields>>
runVars == <<isConverting, statusMsg, progress, pc, closure, recordIds, i,
             successCount, skipCount, failCount, attachmentList, urls, j,
             processedFiles, attResult, ops, ended, completed>>
unitVars == <<logs, logged, img, canvas>>
vars == <<uiVars, runVars, ev, unitVars>>

NoProgress == [current |-> 0, total |-> 0]
NoClosure == [selectedSourceFieldId |-> "", selectedTargetFieldId |-> "",
              targetWidth |-> 0, targetHeight |-> 0]
NoOps == [rec |-> -1, read |-> 0, resolve |-> 0, download |-> 0, transform |-> 0, write |-> 0]
FirstOp(r) == [rec |-> r, read |-> 1, resolve |-> 0, download |-> 0, transform |-> 0, write |-> 0]

\* no image decoded, nothing drawn
NoImage == [width |-> 0, height |-> 0]
NoCanvas == [drawn |-> FALSE]

Status(kind, s, k, f) == [kind |-> kind, success |-> s, skip |-> k, fail |-> f]

Init ==
  /\ selectedSourceFieldId = "" /\ selectedTargetFieldId = ""
  /\ targetWidth = DefaultSize /\ targetHeight = DefaultSize
  /\ attachmentFields = <<>>
  /\ isConverting = FALSE /\ statusMsg = Status("", 0, 0, 0) /\ progress = NoProgress
  /\ pc = "idle" /\ closure = NoClosure
  /\ recordIds = <<>> /\ i = 0
  /\ successCount = 0 /\ skipCount = 0 /\ failCount = 0
  /\ attachmentList = <<>> /\ urls = <<>> /\ j = 0 /\ processedFiles = <<>>
  /\ attResult = <<>> /\ ops = NoOps /\ ended = NoOps /\ completed = 0
  /\ ev = <<"init", "">>
  /\ logs = <<>> /\ logged = 0 /\ img = NoImage /\ canvas = NoCanvas

\* ------------------------------------------------- conditions of the code
\* !selectedSourceFieldId || !selectedTargetFieldId
PreconditionFails(sourceId, targetId) == sourceId = "" \/ targetId = ""

\* faulty variant of NoRecords: the empty-table check left out
NoRecordsNever(total) == FALSE

\* total === 0
NoRecords(total) == total = 0

\* faulty variant of ProgressCurrent: one too many
ProgressCurrentAhead(idx) == idx + 2

\* faulty variant of ProgressCurrent: the number of records completed so far
ProgressCurrentCompleted(idx) == idx

\* setProgress({ current: i + 1, total }) at the head of iteration i
ProgressCurrent(idx) == idx + 1

\* faulty variant of SkipsRecord: only the null test
SkipsRecordNullOnly(cell) == cell.kind = "null"

\* !attachmentList || !Array.isArray(attachmentList) || attachmentList.length === 0
SkipsRecord(cell) == cell.kind = "null" \/ cell.kind # "list" \/ Len(cell.items) = 0

\* reading .message of the caught value throws a TypeError when the value is
\* null or undefined
MessageReadThrows(err) == err = "nullish"

\* faulty variant of OutcomeOfAck: the acknowledgment is not looked at
OutcomeOfAckIgnored(res) == "success"

\* if (res) ... successCount++ else ... failCount++
OutcomeOfAck(res) == IF res THEN "success" ELSE "failed"

\* faulty variant of OutcomeOfNoFiles: a record without files counted as failed
OutcomeOfNoFilesFailed == "failed"

\* else { addLog(`... 无有效图片可处理`); skipCount++ }
OutcomeOfNoFiles == "skipped"

\* faulty variant of HasFiles: the write is made whatever the files
HasFilesAlways(files) == TRUE

\* processedFiles.length > 0 ? upload : skip
HasFiles(files) == Len(files) > 0

\* the counters after an outcome has been counted, as <<success, skip, fail>>
Counted(outcome, s, k, f) ==
  CASE outcome = "success" -> <<s + 1, k, f>>
    [] outcome = "skipped" -> <<s, k + 1, f>>
    [] outcome = "failed" -> <<s, k, f + 1>>

\* attachmentList.map(a => a.token): the token of an attachment is its identity
WithTokens(items) ==
  [k \in 1..Len(items) |-> [hasName |-> items[k].hasName, name |-> items[k].name, token |-> k]]

\* getCellAttachmentUrls answers one URL per token, in the order of the tokens
UrlsFor(tokens) == [k \in 1..Len(tokens) |-> [urlOf |-> tokens[k]]]

\* faulty variant of UrlAt: every attachment is downloaded from the first URL
UrlAtFirst(u, idx) == u[1]

\* const url = urls[j]
UrlAt(u, idx) == u[idx + 1]

\* the next index >= from (0-based) whose attachment passes the image test,
\* Len(list) when there is none: non-images are passed over with `continue`
RECURSIVE NextImageIndex(_, _)
NextImageIndex(list, from) ==
  IF from >= Len(list) THEN Len(list)
  ELSE IF IsImage(FileNameOf(list[from + 1])) THEN from
  ELSE NextImageIndex(list, from + 1)

\* --------------------------------------------------- fragments of actions
\* faulty variant of Finally: the flag and the progress are left as they are
FinallyResetsNothing ==
  /\ UNCHANGED <<isConverting, progress>>
  /\ pc' = "idle"
  /\ closure' = NoClosure

\* finally { setIsConverting(false); setProgress({ current: 0, total: 0 }) }
Finally ==
  /\ isConverting' = FALSE
  /\ progress' = NoProgress
  /\ pc' = "idle"
  /\ closure' = NoClosure

ClearRecordLocals ==
  /\ attachmentList' = <<>> /\ urls' = <<>> /\ j' = 0
  /\ processedFiles' = <<>> /\ attResult' = <<>>

\* catch (error) { setStatusMsg(`失败: ${error.message || '未知错误'}`) } finally {...}
\* the run is over; the record being processed, if any, ended without outcome
OuterCatch(error, endedOps) ==
  /\ statusMsg' = IF MessageReadThrows(error) THEN statusMsg ELSE Status("error", 0, 0, 0)
  /\ Finally
  /\ ClearRecordLocals
  /\ ended' = endedOps
  /\ UNCHANGED <<i, successCount, skipCount, failCount, ops, completed>>

\* for (...; i < recordIds.length; ...) with i = idx: the iteration starts
\* (setProgress, then the await of getValue), or the loop is left and the
\* summary and the finally block run
LoopFrom(idx, s, k, f, endedOps) ==
  /\ i' = idx
  /\ IF idx < Len(recordIds)
     THEN /\ progress' = [current |-> ProgressCurrent(idx), total |-> Len(recordIds)]
          /\ ops' = FirstOp(idx)
          /\ pc' = "getValue"
          /\ UNCHANGED <<isConverting, statusMsg, closure>>
     ELSE /\ statusMsg' = Status("done", s, k, f)
          /\ ops' = endedOps
          /\ Finally

\* faulty variant of NextRecordIndex: every other record is left out
NextRecordIndexSkips(idx) == idx + 2

\* for (let i = 0; ...; i++)
NextRecordIndex(idx) == idx + 1

\* the end of iteration i with its outcome counted, then i++ and the loop test
RecordEnds(outcome, endedOps) ==
  LET c == Counted(outcome, successCount, skipCount, failCount) IN
  /\ successCount' = c[1] /\ skipCount' = c[2] /\ failCount' = c[3]
  /\ ended' = endedOps
  /\ completed' = completed + 1
  /\ ClearRecordLocals
  /\ UNCHANGED recordIds
  /\ LoopFrom(NextRecordIndex(i), c[1], c[2], c[3], endedOps)

\* catch (recordError) { addLog(`... ${recordError.message}`); failCount++ }
RecordCatch(recordError, endedOps) ==
  IF MessageReadThrows(recordError)
  THEN OuterCatch("Error", endedOps) /\ UNCHANGED recordIds
  ELSE RecordEnds("failed", endedOps)

\* the attachment loop from index from (0-based) on, up to its next await:
\* non-images are passed over; at the next image fetch(url) is awaited; after
\* the last attachment the files are written, or the record is skipped
AttachmentsFrom(from, files, results, o, list, u) ==
  LET next == NextImageIndex(list, from)
      res == results \o [k \in 1..(next - from) |-> "nonImage"]
  IN  IF next < Len(list)
      THEN /\ j' = next /\ processedFiles' = files /\ attResult' = res
           /\ attachmentList' = list /\ urls' = u
           /\ ops' = [o EXCEPT !.download = @ + 1]
           /\ pc' = "fetch"
           /\ ended' = NoOps
           /\ UNCHANGED <<isConverting, statusMsg, progress, closure, recordIds, i,
                          successCount, skipCount, failCount, completed>>
      ELSE IF HasFiles(files)
      THEN /\ j' = next /\ processedFiles' = files /\ attResult' = res
           /\ attachmentList' = list /\ urls' = u
           /\ ops' = [o EXCEPT !.write = @ + 1]
           /\ pc' = "setValue"
           /\ ended' = NoOps
           /\ UNCHANGED <<isConverting, statusMsg, progress, closure, recordIds, i,
                          successCount, skipCount, failCount, completed>>
      ELSE RecordEnds(OutcomeOfNoFiles, o)

\* faulty variant of AttachmentCatch: no try/catch around the attachment, the error
\* reaches the catch of the record
AttachmentCatchEscalates(err) == RecordCatch("Error", ops)

\* catch (err) { addLog(`处理附件失败: ${attachment.name} - ${err.message}`) }
AttachmentCatch(err) ==
  IF MessageReadThrows(err)
  THEN RecordCatch("Error", ops)
  ELSE AttachmentsFrom(j + 1, processedFiles, Append(attResult, "failed"), ops,
                       attachmentList, urls)

\* ------------------------------------------------------------ form inputs
\* the options of a field select: the attachment fields, or the one option ""
SelectOptions ==
  IF Len(attachmentFields) > 0
  THEN {attachmentFields[k] : k \in 1..Len(attachmentFields)}
  ELSE {""}

\* Number(e.target.value) || 1
InputToSize(n) == IF n = 0 THEN 1 ELSE n

\* onChange of the source select (disabled while converting)
SetSelectedSourceFieldId ==
  /\ ~isConverting
  /\ \E f \in SelectOptions : selectedSourceFieldId' = f
  /\ ev' = <<"input", "source">>
  /\ UNCHANGED <<selectedTargetFieldId, targetWidth, targetHeight, attachmentFields, runVars, unitVars>>

\* onChange of the target select (disabled while converting)
SetSelectedTargetFieldId ==
  /\ ~isConverting
  /\ \E f \in SelectOptions : selectedTargetFieldId' = f
  /\ ev' = <<"input", "target">>
  /\ UNCHANGED <<selectedSourceFieldId, targetWidth, targetHeight, attachmentFields, runVars, unitVars>>

\* onChange of the width input (disabled while converting)
SetTargetWidth ==
  /\ ~isConverting
  /\ \E n \in InputNumbers : targetWidth' = InputToSize(n)
  /\ ev' = <<"input", "width">>
  /\ UNCHANGED <<selectedSourceFieldId, selectedTargetFieldId, targetHeight,
                 attachmentFields, runVars, unitVars>>

\* onChange of the height input (disabled while converting)
SetTargetHeight ==
  /\ ~isConverting
  /\ \E n \in InputNumbers : targetHeight' = InputToSize(n)
  /\ ev' = <<"input", "height">>
  /\ UNCHANGED <<selectedSourceFieldId, selectedTargetFieldId, targetWidth,
                 attachmentFields, runVars, unitVars>>

\* fetchData, on mount and on every table selection change: the attachment
\* fields are stored and an empty selection defaults to the first field
\* (a failing call is caught and logged and changes nothing)
FetchData ==
  /\ \E fields \in FieldLists :
       /\ attachmentFields' = fields
       /\ selectedSourceFieldId' =
            IF Len(fields) > 0 /\ selectedSourceFieldId = "" THEN fields[1]
            ELSE selectedSourceFieldId
       /\ selectedTargetFieldId' =
            IF Len(fields) > 0 /\ selectedTargetFieldId = "" THEN fields[1]
            ELSE selectedTargetFieldId
  /\ ev' = IF <<attachmentFields', selectedSourceFieldId', selectedTargetFieldId'>>
               # <<attachmentFields, selectedSourceFieldId, selectedTargetFieldId>>
            THEN <<"fetchData", "return">>
            ELSE ev
  /\ UNCHANGED <<targetWidth, targetHeight, runVars, unitVars>>

\* ---------------------------------------------------------- handleConvert
\* the call of handleConvert up to its first await; the button that calls it
\* is disabled while a run is in progress
HandleConvert ==
  /\ pc = "idle"
  /\ ev' = <<"handleConvert", "call">>
  /\ recordIds' = <<>> /\ i' = 0
  /\ successCount' = 0 /\ skipCount' = 0 /\ failCount' = 0
  /\ ClearRecordLocals
  /\ ops' = NoOps /\ ended' = NoOps /\ completed' = 0
  /\ IF PreconditionFails(selectedSourceFieldId, selectedTargetFieldId)
     THEN /\ statusMsg' = Status("needFields", 0, 0, 0)
          /\ UNCHANGED <<isConverting, progress, pc, closure>>
     ELSE /\ isConverting' = TRUE
          /\ statusMsg' = Status("init", 0, 0, 0)
          /\ closure' = [selectedSourceFieldId |-> selectedSourceFieldId,
                         selectedTargetFieldId |-> selectedTargetFieldId,
                         targetWidth |-> targetWidth, targetHeight |-> targetHeight]
          /\ pc' = "getActiveTable"
          /\ UNCHANGED progress
  /\ UNCHANGED <<uiVars, unitVars>>

\* await bitable.base.getActiveTable()
GetActiveTable ==
  /\ pc = "getActiveTable"
  /\ \/ /\ ev' = <<"getActiveTable", "return">>
        /\ pc' = "getRecordIdList"
        /\ UNCHANGED <<isConverting, statusMsg, progress, closure, recordIds, i,
                       successCount, skipCount, failCount, attachmentList, urls, j,
                       processedFiles, attResult, ops, ended, completed>>
     \/ \E e \in SdkThrown :
          /\ ev' = <<"getActiveTable", e>>
          /\ OuterCatch(e, NoOps)
          /\ UNCHANGED recordIds
  /\ UNCHANGED <<uiVars, unitVars>>

\* await table.getRecordIdList(), the empty-table check and setProgress(0, total)
GetRecordIdList ==
  /\ pc = "getRecordIdList"
  /\ \/ \E n \in 0..MaxRecords :
          /\ ev' = <<"getRecordIdList", "return">>
          /\ recordIds' = [k \in 1..n |-> k]
          /\ IF NoRecords(n)
             THEN /\ OuterCatch("Error", NoOps)
             ELSE /\ progress' = [current |-> 0, total |-> n]
                  /\ pc' = "getSourceField"
                  /\ UNCHANGED <<isConverting, statusMsg, closure, i,
                                 successCount, skipCount, failCount, attachmentList,
                                 urls, j, processedFiles, attResult, ops, ended, completed>>
     \/ \E e \in SdkThrown :
          /\ ev' = <<"getRecordIdList", e>>
          /\ OuterCatch(e, NoOps)
          /\ UNCHANGED recordIds
  /\ UNCHANGED <<uiVars, unitVars>>

\* await table.getField(selectedSourceFieldId)
GetSourceField ==
  /\ pc = "getSourceField"
  /\ \/ /\ ev' = <<"getSourceField", "return">>
        /\ pc' = "getTargetField"
        /\ UNCHANGED <<isConverting, statusMsg, progress, closure, recordIds, i,
                       successCount, skipCount, failCount, attachmentList, urls, j,
                       processedFiles, attResult, ops, ended, completed>>
     \/ \E e \in SdkThrown :
          /\ ev' = <<"getSourceField", e>>
          /\ OuterCatch(e, NoOps)
          /\ UNCHANGED recordIds
  /\ UNCHANGED <<uiVars, unitVars>>

\* await table.getField(selectedTargetFieldId), the counters, and the head of
\* iteration 0 up to the await of getValue
GetTargetField ==
  /\ pc = "getTargetField"
  /\ \/ /\ ev' = <<"getTargetField", "return">>
        /\ successCount' = 0 /\ skipCount' = 0 /\ failCount' = 0
        /\ LoopFrom(0, 0, 0, 0, NoOps)
        /\ UNCHANGED <<recordIds, attachmentList, urls, j, processedFiles, attResult,
                       ended, completed>>
     \/ \E e \in SdkThrown :
          /\ ev' = <<"getTargetField", e>>
          /\ OuterCatch(e, NoOps)
          /\ UNCHANGED recordIds
  /\ UNCHANGED <<uiVars, unitVars>>

\* await sourceField.getValue(recordId): an empty cell skips the record,
\* otherwise the tokens are mapped and getCellAttachmentUrls is awaited
GetValue ==
  /\ pc = "getValue"
  /\ \/ \E cell \in Cells :
          /\ ev' = <<"getValue", CellShape(cell)>>
          /\ IF SkipsRecord(cell)
             THEN RecordEnds("skipped", ops)
             ELSE /\ attachmentList' = WithTokens(cell.items)
                  /\ processedFiles' = <<>> /\ attResult' = <<>>
                  /\ urls' = <<>> /\ j' = 0
                  /\ ops' = [ops EXCEPT !.resolve = @ + 1]
                  /\ pc' = "getCellAttachmentUrls"
                  /\ ended' = NoOps
                  /\ UNCHANGED <<isConverting, statusMsg, progress, closure, recordIds, i,
                                 successCount, skipCount, failCount, completed>>
     \/ \E e \in SdkThrown :
          /\ ev' = <<"getValue", e>>
          /\ RecordCatch(e, ops)
  /\ UNCHANGED <<uiVars, unitVars>>

\* await table.getCellAttachmentUrls(tokens, selectedSourceFieldId, recordId)
\* and the attachment loop up to its first await
GetCellAttachmentUrls ==
  /\ pc = "getCellAttachmentUrls"
  /\ \/ /\ ev' = <<"getCellAttachmentUrls", "return">>
        /\ AttachmentsFrom(0, processedFiles, attResult, ops, attachmentList,
                           UrlsFor([k \in 1..Len(attachmentList) |-> attachmentList[k].token]))
     \/ \E e \in SdkThrown :
          /\ ev' = <<"getCellAttachmentUrls", e>>
          /\ RecordCatch(e, ops)
  /\ UNCHANGED <<uiVars, unitVars>>

\* await fetch(url) and the response.ok check; fetch rejects with a TypeError
Fetch ==
  /\ pc = "fetch"
  /\ \/ /\ ev' = <<"fetch", "ok">>
        /\ pc' = "blob"
        /\ ended' = NoOps
        /\ UNCHANGED <<isConverting, statusMsg, progress, closure, recordIds, i,
                       successCount, skipCount, failCount, attachmentList, urls, j,
                       processedFiles, attResult, ops, completed>>
     \/ /\ ev' = <<"fetch", "notOk">>
        /\ AttachmentCatch("Error")
     \/ /\ ev' = <<"fetch", "Error">>
        /\ AttachmentCatch("Error")
  /\ UNCHANGED <<uiVars, unitVars>>

\* await response.blob(), then processImageWithPixel is called
Blob ==
  /\ pc = "blob"
  /\ \/ /\ ev' = <<"blob", "return">>
        /\ pc' = "processImageWithPixel"
        /\ ops' = [ops EXCEPT !.transform = @ + 1]
        /\ ended' = NoOps
        /\ UNCHANGED <<isConverting, statusMsg, progress, closure, recordIds, i,
                       successCount, skipCount, failCount, attachmentList, urls, j,
                       processedFiles, attResult, completed>>
     \/ /\ ev' = <<"blob", "Error">>
        /\ AttachmentCatch("Error")
  /\ UNCHANGED <<uiVars, unitVars>>

\* await processImageWithPixel(blob, targetWidth, targetHeight): the promise
\* resolves with the canvas blob, or rejects with an Error (decode, context,
\* encode); on success the file is named and pushed
ProcessImageWithPixel ==
  /\ pc = "processImageWithPixel"
  /\ \/ /\ ev' = <<"processImageWithPixel", "resolve">>
        /\ AttachmentsFrom(j + 1,
             Append(processedFiles,
                    MakeFile(FileNameOf(attachmentList[j + 1]),
                             closure.targetWidth, closure.targetHeight, j,
                             UrlAt(urls, j))),
             Append(attResult, "ok"), ops, attachmentList, urls)
     \/ /\ ev' = <<"processImageWithPixel", "Error">>
        /\ AttachmentCatch("Error")
  /\ UNCHANGED <<uiVars, unitVars>>

\* await targetField.setValue(recordId, processedFiles)
SetValue ==
  /\ pc = "setValue"
  /\ \/ \E res \in BOOLEAN :
          /\ ev' = <<"setValue", IF res THEN "true" ELSE "false">>
          /\ RecordEnds(OutcomeOfAck(res), ops)
     \/ \E e \in SdkThrown :
          /\ ev' = <<"setValue", e>>
          /\ RecordCatch(e, ops)
  /\ UNCHANGED <<uiVars, unitVars>>

Next ==
  \/ SetSelectedSourceFieldId
  \/ SetSelectedTargetFieldId
  \/ SetTargetWidth
  \/ SetTargetHeight
  \/ FetchData
  \/ HandleConvert
  \/ GetActiveTable
  \/ GetRecordIdList
  \/ GetSourceField
  \/ GetTargetField
  \/ GetValue
  \/ GetCellAttachmentUrls
  \/ Fetch
  \/ Blob
  \/ ProcessImageWithPixel
  \/ SetValue

Spec == Init /\ [][Next]_vars

\* the answer (return or throw) to the call handleConvert is suspended at
AwaitAnswers ==
  \/ GetActiveTable
  \/ GetRecordIdList
  \/ GetSourceField
  \/ GetTargetField
  \/ GetValue
  \/ GetCellAttachmentUrls
  \/ Fetch
  \/ Blob
  \/ ProcessImageWithPixel
  \/ SetValue

\* Spec where every host-store call, download and transform that is awaited
\* is answered at some time
SpecLive == Spec /\ WF_vars(AwaitAnswers)

\* ============================================================ the log buffer
\* array.slice(0, n): the first n elements, all of them when there are fewer
SliceFromStart(s, n) == SubSeq(s, 1, IF Len(s) < n THEN Len(s) ELSE n)

\* faulty variant of LogsUpdater: the entry goes to the end and the cut drops it
LogsUpdaterAppends(prev, entry) == SliceFromStart(prev \o <<entry>>, LogCap)

\* prev => [{ msg, type }, ...prev].slice(0, 50)
LogsUpdater(prev, entry) == SliceFromStart(<<entry>> \o prev, LogCap)

\* addLog(msg, type = 'info'): the messages are numbered by the call so that
\* every entry of a behaviour is told from the others
AddLog ==
  /\ logged < MaxLogged
  /\ logged' = logged + 1
  /\ logs' = LogsUpdater(logs, [msg |-> logged + 1, type |-> "info"])
  /\ ev' = <<"addLog", logged + 1>>
  /\ UNCHANGED <<uiVars, runVars, img, canvas>>

\* setLogs([]) at the start of a run of handleConvert
SetLogs ==
  /\ logs' = <<>>
  /\ ev' = <<"setLogs", "">>
  /\ UNCHANGED <<uiVars, runVars, logged, img, canvas>>

NextLog ==
  \/ AddLog
  \/ SetLogs

SpecLog == Init /\ [][NextLog]_vars

\* ================================================= JavaScript's Number type
\* The arithmetic of processImageWithPixel is that of IEEE 754 doubles: every
\* / * - gives the double nearest to the exact result, ties to the even
\* significand.  TLC's integers are 32 bits wide, so a natural number of any
\* size is held as the sequence of its digits in base 2^15, lowest digit
\* first and no zero digit at the top (<<>> is 0), and a double as
\* [sign, m, e] for sign * m * 2^e with m odd and below 2^53 (0 is Zero).
\* Exponent overflow, subnormals, NaN and -0 do not arise for the sizes used.
LimbBits == 15
Limb == 32768
Precision == 53

RECURSIVE Pow2(_)
Pow2(n) == IF n = 0 THEN 1 ELSE 2 * Pow2(n - 1)

RECURSIVE NatBitLen(_)
NatBitLen(n) == IF n = 0 THEN 0 ELSE 1 + NatBitLen(n \div 2)

Digit(a, k) == IF k <= Len(a) THEN a[k] ELSE 0

RECURSIVE BigTrim(_)
BigTrim(a) ==
  IF Len(a) > 0 /\ a[Len(a)] = 0 THEN BigTrim(SubSeq(a, 1, Len(a) - 1)) ELSE a

RECURSIVE BigOfNat(_)
BigOfNat(n) == IF n = 0 THEN <<>> ELSE <<n % Limb>> \o BigOfNat(n \div Limb)

\* the sign of a - b for a and b of the same length, from digit k down
RECURSIVE BigCmpFrom(_, _, _)
BigCmpFrom(a, b, k) ==
  IF k = 0 THEN 0
  ELSE IF a[k] < b[k] THEN -1
  ELSE IF a[k] > b[k] THEN 1
  ELSE BigCmpFrom(a, b, k - 1)

\* the sign of a - b
BigCmp(a, b) ==
  IF Len(a) < Len(b) THEN -1
  ELSE IF Len(a) > Len(b) THEN 1
  ELSE BigCmpFrom(a, b, Len(a))

RECURSIVE BigAddFrom(_, _, _, _)
BigAddFrom(a, b, k, carry) ==
  IF k > Len(a) /\ k > Len(b) THEN (IF carry = 0 THEN <<>> ELSE <<carry>>)
  ELSE <<(Digit(a, k) + Digit(b, k) + carry) % Limb>>
       \o BigAddFrom(a, b, k + 1, (Digit(a, k) + Digit(b, k) + carry) \div Limb)

BigAdd(a, b) == BigAddFrom(a, b, 1, 0)

RECURSIVE BigSubFrom(_, _, _, _)
BigSubFrom(a, b, k, borrow) ==
  IF k > Len(a) THEN <<>>
  ELSE IF a[k] - Digit(b, k) - borrow < 0
  THEN <<a[k] - Digit(b, k) - borrow + Limb>> \o BigSubFrom(a, b, k + 1, 1)
  ELSE <<a[k] - Digit(b, k) - borrow>> \o BigSubFrom(a, b, k + 1, 0)

\* a - b for a >= b
BigSub(a, b) == BigTrim(BigSubFrom(a, b, 1, 0))

RECURSIVE BigMulSmallFrom(_, _, _, _)
BigMulSmallFrom(a, m, k, carry) ==
  IF k > Len(a) THEN (IF carry = 0 THEN <<>> ELSE <<carry>>)
  ELSE <<(a[k] * m + carry) % Limb>>
       \o BigMulSmallFrom(a, m, k + 1, (a[k] * m + carry) \div Limb)

\* a * m for a digit m
BigMulSmall(a, m) == IF m = 0 THEN <<>> ELSE BigMulSmallFrom(a, m, 1, 0)

BigShiftDigit(a) == IF a = <<>> THEN <<>> ELSE <<0>> \o a

RECURSIVE BigMulFrom(_, _, _)
BigMulFrom(a, b, k) ==
  IF k > Len(b) THEN <<>>
  ELSE BigAdd(BigMulSmall(a, b[k]), BigShiftDigit(BigMulFrom(a, b, k + 1)))

BigMul(a, b) == BigMulFrom(a, b, 1)

\* a * 2^n
BigShl(a, n) ==
  IF a = <<>> THEN <<>>
  ELSE [k \in 1..(n \div LimbBits) |-> 0] \o BigMulSmall(a, Pow2(n % LimbBits))

\* the digits of floor(a / m) for a digit m, from digit k of a down
RECURSIVE BigDivSmallFrom(_, _, _, _)
BigDivSmallFrom(a, m, k, rem) ==
  IF k = 0 THEN <<>>
  ELSE BigDivSmallFrom(a, m, k - 1, (rem * Limb + a[k]) % m)
       \o <<(rem * Limb + a[k]) \div m>>

\* floor(a / 2^n)
BigShr(a, n) ==
  IF n \div LimbBits >= Len(a) THEN <<>>
  ELSE BigTrim(BigDivSmallFrom(SubSeq(a, n \div LimbBits + 1, Len(a)),
                               Pow2(n % LimbBits), Len(a) - n \div LimbBits, 0))

BigBitLen(a) ==
  IF a = <<>> THEN 0 ELSE LimbBits * (Len(a) - 1) + NatBitLen(a[Len(a)])

\* bit k of a, bit 0 the lowest
BigBit(a, k) == (Digit(a, k \div LimbBits + 1) \div Pow2(k % LimbBits)) % 2

BigIsOdd(a) == a # <<>> /\ a[1] % 2 = 1

\* the number of zero bits at the low end of a # 0, counted from bit k
RECURSIVE BigTrailingZeros(_, _)
BigTrailingZeros(a, k) == IF BigBit(a, k) = 1 THEN k ELSE BigTrailingZeros(a, k + 1)

\* 2 * a + bit
BigDouble(a, bit) == BigMulSmallFrom(a, 2, 1, bit)

\* long division, one quotient bit a step: n / d = (q + r / d) / 2^t with
\* r < d, carried on until q has Precision + 2 bits
RECURSIVE BigDivBits(_, _, _, _)
BigDivBits(q, r, d, t) ==
  IF BigBitLen(q) >= Precision + 2 THEN [q |-> q, r |-> r, t |-> t]
  ELSE IF BigCmp(BigDouble(r, 0), d) >= 0
  THEN BigDivBits(BigDouble(q, 1), BigSub(BigDouble(r, 0), d), d, t + 1)
  ELSE BigDivBits(BigDouble(q, 0), BigDouble(r, 0), d, t + 1)

Zero == [sign |-> 1, m |-> <<>>, e |-> 0]

\* sign * m * 2^e with the zero bits at the low end of m moved into e
Dyadic(sign, m, e) ==
  IF m = <<>> THEN Zero
  ELSE [sign |-> sign, m |-> BigShr(m, BigTrailingZeros(m, 0)),
        e |-> e + BigTrailingZeros(m, 0)]

DyadicNeg(x) == IF x.m = <<>> THEN Zero ELSE [x EXCEPT !.sign = -x.sign]

\* x + y, exactly
DyadicAdd(x, y) ==
  LET e == IF x.e < y.e THEN x.e ELSE y.e
      xm == BigShl(x.m, x.e - e)
      ym == BigShl(y.m, y.e - e)
  IN  IF x.sign = y.sign THEN Dyadic(x.sign, BigAdd(xm, ym), e)
      ELSE IF BigCmp(xm, ym) >= 0 THEN Dyadic(x.sign, BigSub(xm, ym), e)
      ELSE Dyadic(y.sign, BigSub(ym, xm), e)

\* x * y, exactly
DyadicMul(x, y) == Dyadic(x.sign * y.sign, BigMul(x.m, y.m), x.e + y.e)

\* the sign of x - y
DyadicCmp(x, y) ==
  LET d == DyadicAdd(x, DyadicNeg(y)) IN IF d.m = <<>> THEN 0 ELSE d.sign

\* the double nearest to sign * (n + f) * 2^e, ties to even, where 0 < f < 1
\* if sticky and f = 0 if not; with sticky, n has more than Precision + 1 bits
RoundToDouble(sign, n, e, sticky) ==
  IF BigBitLen(n) <= Precision THEN Dyadic(sign, n, e)
  ELSE LET d == BigBitLen(n) - Precision
           q == BigShr(n, d)
           c == BigCmp(BigSub(n, BigShl(q, d)), BigShl(<<1>>, d - 1))
       IN  IF c > 0 \/ (c = 0 /\ (sticky \/ BigIsOdd(q)))
           THEN Dyadic(sign, BigAdd(q, <<1>>), e + d)
           ELSE Dyadic(sign, q, e + d)

\* an integer as a Number
NumberOf(n) == Dyadic(IF n < 0 THEN -1 ELSE 1, BigOfNat(IF n < 0 THEN -n ELSE n), 0)

\* x - y
NumberSub(x, y) ==
  LET d == DyadicAdd(x, DyadicNeg(y)) IN RoundToDouble(d.sign, d.m, d.e, FALSE)

\* x * y
NumberMul(x, y) ==
  LET p == DyadicMul(x, y) IN RoundToDouble(p.sign, p.m, p.e, FALSE)

\* x / y for y # 0.  A divisor that is a power of two only moves the
\* exponent.  Otherwise the shorter significand is shifted to the length of
\* the longer one, so that the quotient of the two lies between 1/2 and 2,
\* and the quotient bits are taken until rounding can be decided.
NumberDiv(x, y) ==
  IF x.m = <<>> THEN Zero
  ELSE IF y.m = <<1>> THEN [sign |-> x.sign * y.sign, m |-> x.m, e |-> x.e - y.e]
  ELSE LET lx == BigBitLen(x.m)
           ly == BigBitLen(y.m)
           sx == IF lx < ly THEN ly - lx ELSE 0
           sy == IF ly < lx THEN lx - ly ELSE 0
           n == BigShl(x.m, sx)
           d == BigShl(y.m, sy)
           b == IF BigCmp(n, d) >= 0
                THEN BigDivBits(<<1>>, BigSub(n, d), d, 0)
                ELSE BigDivBits(<<>>, n, d, 0)
       IN  RoundToDouble(x.sign * y.sign, b.q, (x.e - sx) - (y.e - sy) - b.t, b.r # <<>>)

\* faulty variant of NumberGreater: the comparison turned around
NumberLess(x, y) == DyadicCmp(x, y) < 0

\* x > y
NumberGreater(x, y) == DyadicCmp(x, y) > 0

\* ======================================================= the source rectangle
\* what the onload handler of processImageWithPixel computes from the decoded
\* image and the target size, and hands to drawImage (App.tsx:26-52)
SourceRect(imgWidth, imgHeight, tw, th) ==
  LET targetRatio == NumberDiv(NumberOf(tw), NumberOf(th))
      currentRatio == NumberDiv(NumberOf(imgWidth), NumberOf(imgHeight))
  IN  IF NumberGreater(currentRatio, targetRatio)
      THEN LET sourceWidth == NumberMul(NumberOf(imgHeight), targetRatio)
           IN  [branch |-> "wider",
                sourceHeight |-> NumberOf(imgHeight),
                sourceWidth |-> sourceWidth,
                sourceX |-> NumberDiv(NumberSub(NumberOf(imgWidth), sourceWidth), NumberOf(2)),
                sourceY |-> NumberOf(0)]
      ELSE LET sourceHeight == NumberDiv(NumberOf(imgWidth), targetRatio)
           IN  [branch |-> "taller",
                sourceWidth |-> NumberOf(imgWidth),
                sourceHeight |-> sourceHeight,
                sourceX |-> NumberOf(0),
                sourceY |-> NumberDiv(NumberSub(NumberOf(imgHeight), sourceHeight), NumberOf(2))]

\* the widths and heights tried, of the image and of the target: all up to
\* MaxDim, and 11 and 15, the smallest pair of equal ratios for which the
\* rounding makes the rectangle larger than the image
CropSizes == 1..MaxDim \cup {11, 15}

\* what the decoder can give as img.width and img.height
ImageSizes == [width : CropSizes, height : CropSizes]

\* a call processImageWithPixel(blob, targetWidth, targetHeight) with positive
\* target sizes whose blob has been decoded to some image: the state when
\* img.onload is about to run
InitCrop ==
  /\ selectedSourceFieldId = "" /\ selectedTargetFieldId = ""
  /\ targetWidth \in CropSizes /\ targetHeight \in CropSizes
  /\ attachmentFields = <<>>
  /\ isConverting = FALSE /\ statusMsg = Status("", 0, 0, 0) /\ progress = NoProgress
  /\ pc = "onload" /\ closure = NoClosure
  /\ recordIds = <<>> /\ i = 0
  /\ successCount = 0 /\ skipCount = 0 /\ failCount = 0
  /\ attachmentList = <<>> /\ urls = <<>> /\ j = 0 /\ processedFiles = <<>>
  /\ attResult = <<>> /\ ops = NoOps /\ ended = NoOps /\ completed = 0
  /\ ev = <<"init", "">>
  /\ logs = <<>> /\ logged = 0
  /\ img \in ImageSizes /\ canvas = NoCanvas

\* img.onload: the canvas gets the target size and the source rectangle is
\* drawn onto all of it
OnLoad ==
  /\ pc = "onload"
  /\ canvas' = [drawn |-> TRUE, width |-> targetWidth, height |-> targetHeight,
                rect |-> SourceRect(img.width, img.height, targetWidth, targetHeight)]
  /\ pc' = "toBlob"
  /\ ev' = <<"onload", "drawImage">>
  /\ UNCHANGED <<uiVars, isConverting, statusMsg, progress, closure, recordIds, i,
                 successCount, skipCount, failCount, attachmentList, urls, j,
                 processedFiles, attResult, ops, ended, completed, logs, logged, img>>

NextCrop == OnLoad

SpecCrop == InitCrop /\ [][NextCrop]_vars

\* ================================================================= claims
\* the awaits inside the record loop, and those of the attachment loop
RecordPcs == {"getValue", "getCellAttachmentUrls", "fetch", "blob",
              "processImageWithPixel", "setValue"}
DownloadPcs == {"fetch", "blob", "processImageWithPixel"}

\* events: a host-store call of the record loop rejecting
RecordThrowEvents ==
  { <<c, e>> : c \in {"getValue", "getCellAttachmentUrls", "setValue"}, e \in SdkThrown }

\* the step ends the processing of record i: the loop moves on or the run is over
RecordLeaves == pc \in RecordPcs /\ (i' # i \/ pc' = "idle")

\* the loop goes on after record i: the next record is read, or record i was
\* the last one and the run ends with the summary
LoopGoesOn ==
  IF i + 1 < Len(recordIds)
  THEN pc' = "getValue" /\ i' = i + 1 /\ isConverting'
  ELSE pc' = "idle" /\ statusMsg'.kind = "done"

\* C1: whatever a host-store call of the record loop throws (the cell read, the
\* URL resolution or the destination write), the record is counted as failed
\* and the loop goes on with the next record.
C1_RecordFailureIsolation ==
  [][ ev' \in RecordThrowEvents /\ pc \in RecordPcs =>
        /\ failCount' = failCount + 1
        /\ successCount' = successCount /\ skipCount' = skipCount
        /\ LoopGoesOn ]_vars

\* C2: every iteration of the record loop adds exactly 1 to exactly one of the
\* three counters, and the summary of a run over n records has counts that sum to n.
C2_OutcomeAccounting ==
  /\ [][ RecordLeaves =>
           /\ successCount' + skipCount' + failCount'
                = successCount + skipCount + failCount + 1
           /\ successCount' \in {successCount, successCount + 1}
           /\ skipCount' \in {skipCount, skipCount + 1}
           /\ failCount' \in {failCount, failCount + 1} ]_vars
  /\ [](statusMsg.kind = "done" =>
          statusMsg.success + statusMsg.skip + statusMsg.fail = Len(recordIds))

\* events: the download or the transform of the current attachment failing
AttachmentFailEvents ==
  { <<"fetch", "notOk">>, <<"fetch", "Error">>, <<"blob", "Error">>,
    <<"processImageWithPixel", "Error">> }

\* the positions (1-based) of the attachments of the current record that
\* were downloaded and transformed successfully
OkPositions == { k \in 1..Len(attResult) : attResult[k] = "ok" }

\* C3: a failing attachment is left out and the others are still processed: the
\* set handed to the destination write holds exactly one file per attachment that
\* succeeded, every attachment of the record has been handled by then, a failure
\* of an attachment counts nothing against the record, and a truthy
\* acknowledgment makes the record a success.
C3_AttachmentFailureIsolation ==
  /\ [](pc = "setValue" =>
          /\ Len(attResult) = Len(attachmentList)
          /\ Len(processedFiles) = Cardinality(OkPositions)
          /\ { processedFiles[m].src + 1 : m \in 1..Len(processedFiles) } = OkPositions)
  /\ [][ ev' \in AttachmentFailEvents /\ pc \in DownloadPcs =>
           /\ failCount' = failCount /\ successCount' = successCount
           /\ \/ pc' \in {"fetch", "setValue"} /\ i' = i
              \/ /\ ~ \E k \in 1..Len(attResult) : attResult[k] = "ok"
                 /\ skipCount' = skipCount + 1 ]_vars
  /\ [][ ev' = <<"setValue", "true">> /\ pc = "setValue" =>
           successCount' = successCount + 1 ]_vars

\* C3 witness: the write of a record is awaited with one attachment failed and
\* another one processed.
C3_Witness ==
  /\ pc = "setValue"
  /\ \E k \in 1..Len(attResult) : attResult[k] = "failed"
  /\ \E k \in 1..Len(attResult) : attResult[k] = "ok"
  /\ Len(processedFiles) = 1

\* events: the cell read answering a value that is null, no list, or an empty list
EmptyCellEvents ==
  { <<"getValue", "null">>, <<"getValue", "notList">>, <<"getValue", "empty">> }

\* C4: a record whose cell is empty, absent or not a list is skipped: the skip
\* counter goes up by 1, the two others stay, and the cell read is the only call
\* made for the record.
C4_EmptyCellSkipped ==
  [][ ev' \in EmptyCellEvents /\ pc = "getValue" =>
        /\ skipCount' = skipCount + 1
        /\ successCount' = successCount /\ failCount' = failCount
        /\ ended' = FirstOp(i)
        /\ LoopGoesOn ]_vars

\* C4 witness: the second record of a run was skipped for a cell that is no list.
C4_Witness ==
  /\ ev = <<"getValue", "notList">>
  /\ ended = FirstOp(1)
  /\ skipCount >= 1

\* C5: the acknowledgment of the write decides the outcome: truthy counts a
\* success, falsy counts a failure, and the loop goes on in both cases.
C5_AckDecidesOutcome ==
  [][ pc = "setValue" /\ Len(processedFiles) >= 1 =>
        /\ ev' = <<"setValue", "true">> =>
             /\ successCount' = successCount + 1
             /\ skipCount' = skipCount /\ failCount' = failCount
             /\ LoopGoesOn
        /\ ev' = <<"setValue", "false">> =>
             /\ failCount' = failCount + 1
             /\ successCount' = successCount /\ skipCount' = skipCount
             /\ LoopGoesOn ]_vars

\* C5 witness: the write of the first record was answered falsy and the second
\* record is being read.
C5_Witness ==
  /\ ev = <<"setValue", "false">>
  /\ ended.write = 1
  /\ failCount = 1
  /\ pc = "getValue" /\ i = 1

\* events: a step of the attachment loop that is not a record-level throw
AttachmentLoopEvents ==
  AttachmentFailEvents \cup
  { <<"getCellAttachmentUrls", "return">>, <<"processImageWithPixel", "resolve">> }

\* C6: when the attachment loop of a record ends without any processed file
\* (only non-images, or every image failed), the record is skipped, not failed,
\* and the destination write is not invoked; with a file, the write is invoked.
C6_NoFilesSkipped ==
  [][ /\ ev' \in AttachmentLoopEvents
      /\ pc \in {"getCellAttachmentUrls"} \cup DownloadPcs
      /\ pc' \notin DownloadPcs
      => IF Len(processedFiles) = 0 /\ ev' # <<"processImageWithPixel", "resolve">>
         THEN /\ skipCount' = skipCount + 1
              /\ failCount' = failCount /\ successCount' = successCount
              /\ ended'.write = 0 /\ ended'.rec = i
              /\ pc' # "setValue"
         ELSE pc' = "setValue" /\ i' = i ]_vars

\* C6 witness: a record ended skipped after both of its attachments were
\* downloaded and none gave a file.
C6_Witness ==
  /\ ev \in AttachmentFailEvents
  /\ ended.download = 2 /\ ended.write = 0
  /\ skipCount = 1 /\ failCount = 0 /\ completed = 1

\* the suffixes the claim names, and a name ending in one of them whatever the case
DottedExtensions ==
  { <<".", "j", "p", "g">>, <<".", "j", "p", "e", "g">>, <<".", "p", "n", "g">>,
    <<".", "w", "e", "b", "p">>, <<".", "g", "i", "f">>, <<".", "b", "m", "p">> }

HasImageExtension(name) ==
  \E suf \in DottedExtensions :
    /\ Len(name) >= Len(suf)
    /\ \A k \in 1..Len(suf) : LowerChar(name[Len(name) - Len(suf) + k]) = suf[k]

\* the name the attachment is classified by: its own, or image.jpg without one
ClassifiedName(a) == IF a.hasName /\ Len(a.name) > 0 THEN a.name ELSE ImageJpg

C8_PreconditionsFatal ==
  [][ /\ ( /\ ev' = <<"handleConvert", "call">> /\ pc = "idle"
           /\ (selectedSourceFieldId = "" \/ selectedTargetFieldId = "") )
         => /\ pc' = "idle" /\ statusMsg'.kind = "needFields"
            /\ ~isConverting' /\ progress' = NoProgress
            /\ ops' = NoOps /\ completed' = 0
      /\ ( /\ ev' = <<"getRecordIdList", "return">> /\ pc = "getRecordIdList"
           /\ recordIds' = <<>> )
         => /\ pc' = "idle" /\ statusMsg'.kind = "error"
            /\ ~isConverting' /\ progress' = NoProgress
            /\ ops' = NoOps /\ completed' = 0
      /\ (pc = "idle" /\ pc' = "idle") => (ops' = ops \/ ops' = NoOps) ]_vars

\* C8 witness: a run over a table without records has ended with the error status.
C8_Witness ==
  /\ ev = <<"getRecordIdList", "return">>
  /\ recordIds = <<>>
  /\ pc = "idle" /\ statusMsg.kind = "error"
  /\ ~isConverting /\ progress = NoProgress

\* the awaits between setProgress({ current: 0, total }) and the finally block
InRunPcs == {"getSourceField", "getTargetField"} \cup RecordPcs

\* C9: 0 <= current <= total in every state, and from setProgress(0, total) to
\* the terminal reset current never decreases and total never changes.
C9_ProgressBounds ==
  /\ [](0 <= progress.current /\ progress.current <= progress.total)
  /\ [][ (pc \in InRunPcs /\ pc' \in InRunPcs) =>
           /\ progress'.current >= progress.current
           /\ progress'.total = progress.total ]_vars

\* C9 witness: the last of two records is being processed.
C9_Witness ==
  /\ pc = "fetch"
  /\ progress = [current |-> 2, total |-> 2]

C11_BoundedNewestFirst ==
  /\ [](Len(logs) <= 50)
  /\ [](\A k \in 1..(Len(logs) - 1) : logs[k].msg > logs[k + 1].msg)
  /\ [][ logged' = logged + 1 =>
           /\ logs'[1].msg = ev'[2]
           /\ Len(logs') = (IF Len(logs) < 50 THEN Len(logs) + 1 ELSE 50)
           /\ \A k \in 2..Len(logs') : logs'[k] = logs[k - 1]
           /\ Len(logs) = 50 => \A k \in 1..50 : logs'[k] # logs[50] ]_vars
  /\ [][ (ev' = <<"setLogs", "">> /\ ev' # ev) => logs' = <<>> ]_vars

\* C11 witness: 52 entries were added without a run start in between, the buffer
\* holds the 50 newest ones and the first two are gone.
C11_Witness ==
  /\ logged = 52
  /\ Len(logs) = 50
  /\ logs[1].msg = 52 /\ logs[50].msg = 3

\* C12: processing is strictly sequential.  While a record is processed it is
\* record i of the id list, every record before it has had its outcome counted
\* and it has been read once (so the records are taken in the order of the
\* list, each once); the first operation of the next record, its cell read,
\* comes in the step that counts the outcome of record i, and a run that ends
\* with the summary has counted every record.  Within a record, while
\* attachment j is downloaded or transformed every attachment before it has
\* finished, j only moves forward, and at the write all attachments are done.
C12_StrictlySequential ==
  /\ [](pc \in RecordPcs =>
          /\ i < Len(recordIds) /\ ops.rec = i /\ completed = i
          /\ successCount + skipCount + failCount = i
          /\ ops.read = 1 /\ ops.resolve <= 1)
  /\ [][ (pc' \in RecordPcs /\ pc \notin RecordPcs) => i' = 0 /\ ops' = FirstOp(0) ]_vars
  /\ [][ (pc \in RecordPcs /\ pc' \in RecordPcs /\ ops'.rec # ops.rec) =>
           /\ i' = i + 1 /\ ops' = FirstOp(i + 1) /\ pc' = "getValue"
           /\ completed' = completed + 1
           /\ successCount' + skipCount' + failCount'
                = successCount + skipCount + failCount + 1 ]_vars
  /\ [](statusMsg.kind = "done" => completed = Len(recordIds))
  /\ [](pc \in DownloadPcs => j < Len(attachmentList) /\ Len(attResult) = j)
  /\ [](pc = "setValue" => Len(attResult) = Len(attachmentList))
  /\ [][ (pc \in DownloadPcs /\ pc' \in DownloadPcs) =>
           /\ i' = i /\ j' >= j
           /\ j' > j => pc' = "fetch" /\ Len(attResult') = j' ]_vars

\* C12 witness: the second attachment of the second record is being downloaded
\* after the first record was counted and the first attachment gave its file.
C12_Witness ==
  /\ pc = "fetch" /\ i = 1 /\ j = 1
  /\ completed = 1 /\ ops = [FirstOp(1) EXCEPT !.resolve = 1, !.download = 2, !.transform = 1]
  /\ attResult = <<"ok">>

\* C13: whatever was typed into the width and height inputs before the run,
\* processImageWithPixel is only ever called with targetWidth > 0 and
\* targetHeight > 0.
C13_PositiveDimensionsOnly ==
  pc = "processImageWithPixel" =>
    closure.targetWidth > 0 /\ closure.targetHeight > 0

\* C14: when the image has exactly the aspect ratio of the target
\* (imgWidth * targetHeight = imgHeight * targetWidth) the else branch is taken
\* and the rectangle drawn is the whole image: sourceX = 0, sourceY = 0,
\* sourceWidth = imgWidth, sourceHeight = imgHeight.
C14_TieDrawsWholeImage ==
  (canvas.drawn /\ img.width * targetHeight = img.height * targetWidth) =>
    /\ canvas.rect.branch = "taller"
    /\ canvas.rect.sourceX = NumberOf(0)
    /\ canvas.rect.sourceY = NumberOf(0)
    /\ canvas.rect.sourceWidth = NumberOf(img.width)
    /\ canvas.rect.sourceHeight = NumberOf(img.height)

TwoTo(k) == [sign |-> 1, m |-> <<1>>, e |-> k]
DyadicAbs(x) == [x EXCEPT !.sign = 1]

\* x is the number a up to rounding: |x - a| <= 2^-51 * bound
NearTo(x, a, bound) ==
  DyadicCmp(DyadicMul(DyadicAbs(DyadicAdd(x, DyadicNeg(a))), TwoTo(51)), bound) <= 0

\* x is the fraction n / d up to rounding: |x * d - n| <= 2^-51 * n
NearToFraction(x, n, d) == NearTo(DyadicMul(x, NumberOf(d)), NumberOf(n), NumberOf(n))

RECURSIVE DecimalValue(_)
DecimalValue(text) ==
  IF Len(text) = 0 THEN 0
  ELSE 10 * DecimalValue(SubSeq(text, 1, Len(text) - 1))
       + (CHOOSE d \in 0..9 : Digits[d + 1] = text[Len(text)])

\* text is the decimal text of the integer n: digits without a leading zero,
\* after a minus sign for a negative number
IsDecimalOf(text, n) ==
  LET digits == IF n < 0 THEN Tail(text) ELSE text IN
  /\ Len(text) >= 1
  /\ n < 0 => text[1] = "-"
  /\ Len(digits) >= 1
  /\ \A k \in 1..Len(digits) : \E d \in 0..9 : Digits[d + 1] = digits[k]
  /\ Len(digits) > 1 => digits[1] # "0"
  /\ DecimalValue(digits) = (IF n < 0 THEN -n ELSE n)

\* base is the name with everything from its last "." on removed (the name
\* itself when it holds no ".")
IsBaseOf(base, name) ==
  \/ /\ \A k \in 1..Len(name) : name[k] # "."
     /\ base = name
  \/ \E k \in 1..Len(name) :
       /\ name[k] = "."
       /\ \A m \in (k + 1)..Len(name) : name[m] # "."
       /\ base = SubSeq(name, 1, k - 1)

\* out reads base "_" W "x" H ".jpg" for the name n and the target w x h
IsOutputNameOf(out, n, w, h) ==
  \E p, q \in 1..Len(out) :
    /\ p < q /\ q + 4 < Len(out)
    /\ out[p] = "_" /\ out[q] = "x"
    /\ IsBaseOf(SubSeq(out, 1, p - 1), n)
    /\ IsDecimalOf(SubSeq(out, p + 1, q - 1), w)
    /\ IsDecimalOf(SubSeq(out, q + 1, Len(out) - 4), h)
    /\ SubSeq(out, Len(out) - 3, Len(out)) = <<".", "j", "p", "g">>

C17_OneTargetPerRun ==
  /\ [][ (pc = "idle" /\ pc' # "idle") =>
           /\ closure'.targetWidth = targetWidth
           /\ closure'.targetHeight = targetHeight ]_vars
  /\ [][ (pc # "idle" /\ pc' # "idle") => closure' = closure ]_vars
  /\ [](pc # "idle" =>
          /\ targetWidth = closure.targetWidth
          /\ targetHeight = closure.targetHeight)
  /\ [](\A m \in 1..Len(processedFiles) :
          /\ processedFiles[m].w = closure.targetWidth
          /\ processedFiles[m].h = closure.targetHeight
          /\ IsOutputNameOf(processedFiles[m].name,
                            ClassifiedName(attachmentList[processedFiles[m].src + 1]),
                            closure.targetWidth, closure.targetHeight))

\* C18: every run ends in the terminal state.  When no run is on (before the
\* first one, after a run has ended, after a call refused for a missing
\* selection) isConverting is false and progress is (0,0); a run that is on,
\* whose awaited calls all get an answer, comes to its end, whether by the
\* summary or by an error of the table, the id list, the fields or a record;
\* and the step that leaves the loop after the last record sets the status to
\* the summary of the three counters.
C18_RunsTerminate ==
  /\ [](pc = "idle" => ~isConverting /\ progress = NoProgress)
  /\ [](pc # "idle" => isConverting)
  /\ (pc # "idle") ~> (pc = "idle" /\ ~isConverting /\ progress = NoProgress)
  /\ [][ (pc \in RecordPcs /\ pc' = "idle" /\ i' = Len(recordIds)) =>
           statusMsg' = [kind |-> "done", success |-> successCount',
                         skip |-> skipCount', fail |-> failCount'] ]_vars

\* C18 witness: a run over two records has ended with the summary of one
\* success and one failure, and the flag and the progress are reset.
C18_Witness ==
  /\ pc = "idle" /\ ~isConverting /\ progress = NoProgress
  /\ statusMsg = [kind |-> "done", success |-> 1, skip |-> 0, fail |-> 1]
  /\ completed = 2

\* C19: one write per record, never undone.  The write is invoked at most once
\* for a record; it is invoked for record i, the one being processed, when
\* every attachment of it has been handled, with all the files made for it and
\* at least one; between two writes the loop has moved on, so no record is
\* written twice, and a step in which a record fails or is skipped makes no
\* call for another record and takes back no success already counted.
C19_SingleWritePerRecord ==
  /\ [](ops.write <= 1 /\ ended.write <= 1)
  /\ [](pc = "setValue" <=> (pc \in RecordPcs /\ ops.write = 1))
  /\ [](pc = "setValue" =>
          /\ ops.rec = i
          /\ Len(attResult) = Len(attachmentList)
          /\ Len(processedFiles) >= 1
          /\ Len(processedFiles) = Cardinality(OkPositions)
          /\ \A k \in OkPositions : \E m \in 1..Len(processedFiles) :
               processedFiles[m].src + 1 = k)
  /\ [][ (pc \in RecordPcs /\ pc' \in RecordPcs) =>
           /\ i' >= i
           /\ successCount' >= successCount
           /\ ops'.rec = i' ]_vars

\* C19 witness: the write of the second record was rejected after the first
\* record had been written with success; the first record keeps its count.
C19_Witness ==
  /\ ev = <<"setValue", "Error">>
  /\ ended.rec = 1 /\ ended.write = 1
  /\ successCount = 1 /\ failCount = 1 /\ completed = 2

====
